---------------------------- MODULE Spec2Model ----------------------------
(***************************************************************************)
(* A model of analyze.py (burrima/bank-statement-analysis): the two        *)
(* statement parsers, the category resolver, the filter engine, the        *)
(* summary aggregation and the interactive classification workflow.        *)
(*                                                                         *)
(* Text is modelled as Python models it: a string is a sequence of         *)
(* one-character strings, so that split, strip, replace, lower, substring  *)
(* tests and numeric parsing are computed, not assumed.  Amounts are       *)
(* integers counted in thousandths (75.0 is 75000), which keeps one more   *)
(* decimal than round(x, 2) does.                                          *)
(***************************************************************************)
EXTENDS Integers, Sequences, FiniteSets, TLC

VARIABLES
    statement_type,  \* the -t argument
    lines,           \* the statement file, as f.readlines() returns it
    filter_str,      \* the -f argument
    disk,            \* the category definitions file
    categories,      \* the definitions in memory (an insertion-ordered dict)
    table,           \* the table in memory
    last_idx,        \* classify_interactive: the remembered offset
    i,               \* classify_interactive: the inner loop's index
    row_pos,         \* classify_interactive: position of the row at hand in table
    category,        \* classify_interactive: the category chosen at the prompt
    text,            \* classify_interactive: the pattern entered at the prompt
    pc,              \* where the program stands
    out,             \* what a call returned
    hist             \* history of the run, read by the properties only

vars == <<statement_type, lines, filter_str, disk, categories, table, last_idx, i,
          row_pos, category, text, pc, out, hist>>

---------------------------------------------------------------------------
(* Characters and strings *)

Ascii == <<"\n", " ", "!", "\"", "'", ",", "-", ".",
           "0", "1", "2", "3", "4", "5", "6", "7", "8", "9",
           ":", ";", "<", "=", ">", "?",
           "A", "B", "C", "D", "E", "F", "G", "H", "I", "J", "K", "L", "M",
           "N", "O", "P", "Q", "R", "S", "T", "U", "V", "W", "X", "Y", "Z",
           "a", "b", "c", "d", "e", "f", "g", "h", "i", "j", "k", "l", "m",
           "n", "o", "p", "q", "r", "s", "t", "u", "v", "w", "x", "y", "z">>

Chars == {Ascii[k] : k \in 1..Len(Ascii)}

OrdTable == [c \in Chars |-> CHOOSE k \in 1..Len(Ascii) : Ascii[k] = c]

\* ord(c), up to the offset of the table
Ord(c) == OrdTable[c]

Digits == <<"0", "1", "2", "3", "4", "5", "6", "7", "8", "9">>

DigitChars == {Digits[k] : k \in 1..10}

IsDigit(c) == c \in DigitChars

DigitVal(c) == Ord(c) - Ord("0")

UpperChars == {c \in Chars : Ord("A") <= Ord(c) /\ Ord(c) <= Ord("Z")}

IsSpace(c) == c \in {" ", "\n"}

LowerTable == [c \in UpperChars |-> Ascii[Ord(c) + (Ord("a") - Ord("A"))]]

LowerChar(c) == IF c \in UpperChars THEN LowerTable[c] ELSE c

\* str.lower()
Lower(s) == [k \in 1..Len(s) |-> LowerChar(s[k])]

\* sub in s
Contains(sub, s) ==
    \E k \in 0..(Len(s) - Len(sub)) : SubSeq(s, k + 1, k + Len(sub)) = sub

\* s.startswith(prefix)
StartsWith(s, prefix) ==
    Len(prefix) <= Len(s) /\ SubSeq(s, 1, Len(prefix)) = prefix

\* s.replace(c, "")
Remove(s, c) == SelectSeq(s, LAMBDA x : x # c)

RECURSIVE LStrip(_)
LStrip(s) == IF s # <<>> /\ IsSpace(Head(s)) THEN LStrip(Tail(s)) ELSE s

RECURSIVE RStrip(_)
RStrip(s) ==
    IF s # <<>> /\ IsSpace(s[Len(s)]) THEN RStrip(SubSeq(s, 1, Len(s) - 1)) ELSE s

\* str.strip()
Strip(s) == RStrip(LStrip(s))

\* s.split(sep) for a one-character sep: always at least one piece
RECURSIVE SplitAcc(_, _, _, _)
SplitAcc(s, sep, cur, acc) ==
    IF s = <<>> THEN Append(acc, cur)
    ELSE IF Head(s) = sep THEN SplitAcc(Tail(s), sep, <<>>, Append(acc, cur))
    ELSE SplitAcc(Tail(s), sep, Append(cur, Head(s)), acc)

Split(s, sep) == SplitAcc(s, sep, <<>>, <<>>)

\* sep.join(parts)
RECURSIVE Join(_, _)
Join(parts, sep) ==
    IF parts = <<>> THEN <<>>
    ELSE IF Len(parts) = 1 THEN parts[1]
    ELSE parts[1] \o <<sep>> \o Join(Tail(parts), sep)

\* str.isdigit()
IsDigitStr(s) == s # <<>> /\ \A k \in 1..Len(s) : IsDigit(s[k])

RECURSIVE DigitsVal(_)
DigitsVal(s) ==
    IF s = <<>> THEN 0 ELSE 10 * DigitsVal(SubSeq(s, 1, Len(s) - 1)) + DigitVal(s[Len(s)])

\* Lexicographic order by code point: the order of list.sort() on strings
RECURSIVE StrLess(_, _)
StrLess(a, b) ==
    IF b = <<>> THEN FALSE
    ELSE IF a = <<>> THEN TRUE
    ELSE IF Head(a) # Head(b) THEN Ord(Head(a)) < Ord(Head(b))
    ELSE StrLess(Tail(a), Tail(b))

---------------------------------------------------------------------------
(* Results.  A call that may raise returns Ok(value) or Raised: the        *)
(* exception leaves the function, and every caller passes it on.           *)

Ok(value) == [ok |-> TRUE, v |-> value]

Raised == [ok |-> FALSE]

\* Whether every call of a sequence of results returned
AllOk(results) == \A k \in 1..Len(results) : results[k].ok

Values(results) == [k \in 1..Len(results) |-> results[k].v]

Pad3(f) ==
    IF Len(f) = 0 THEN 0
    ELSE IF Len(f) = 1 THEN 100 * DigitsVal(f)
    ELSE IF Len(f) = 2 THEN 10 * DigitsVal(f)
    ELSE DigitsVal(f)

\* float(s), for decimal literals with at most three decimals (no exponent, inf, nan)
ParseFloat(s) ==
    LET t == Strip(s)
        neg == t # <<>> /\ Head(t) = "-"
        body == IF t # <<>> /\ Head(t) \in {"-"} THEN Tail(t) ELSE t
        parts == Split(body, ".")
        ip == parts[1]
        fp == IF Len(parts) = 2 THEN parts[2] ELSE <<>>
        wellformed ==
            /\ Len(parts) <= 2
            /\ Len(ip) + Len(fp) > 0
            /\ \A k \in 1..Len(ip) : IsDigit(ip[k])
            /\ \A k \in 1..Len(fp) : IsDigit(fp[k])
            /\ Len(fp) <= 3
        mag == 1000 * DigitsVal(ip) + Pad3(fp)
    IN  IF wellformed THEN Ok(IF neg THEN 0 - mag ELSE mag) ELSE Raised

\* int(s)
ParseInt(s) ==
    LET t == Strip(s)
        neg == t # <<>> /\ Head(t) = "-"
        body == IF neg THEN Tail(t) ELSE t
    IN  IF IsDigitStr(body) THEN Ok(IF neg THEN 0 - DigitsVal(body) ELSE DigitsVal(body))
        ELSE Raised

RECURSIVE NatStr(_)
NatStr(n) ==
    IF n < 10 THEN <<Digits[n + 1]>> ELSE Append(NatStr(n \div 10), Digits[(n % 10) + 1])

RECURSIVE DropZeros(_)
DropZeros(s) ==
    IF Len(s) > 1 /\ s[Len(s)] = "0" THEN DropZeros(SubSeq(s, 1, Len(s) - 1)) ELSE s

\* str(x) of a float
FloatStr(x) ==
    LET m == IF x < 0 THEN 0 - x ELSE x
        f == m % 1000
        f3 == <<Digits[(f \div 100) + 1], Digits[((f \div 10) % 10) + 1], Digits[(f % 10) + 1]>>
    IN  (IF x < 0 THEN <<"-">> ELSE <<>>) \o NatStr(m \div 1000) \o <<".">> \o DropZeros(f3)

\* round(x, 2): to the nearest hundredth, a tie to the even hundredth
Round2(x) ==
    LET m == IF x < 0 THEN 0 - x ELSE x
        q == m \div 10
        r == m % 10
        up == r > 5 \/ (r = 5 /\ q % 2 = 1)
        v == 10 * (IF up THEN q + 1 ELSE q)
    IN  IF x < 0 THEN 0 - v ELSE v

---------------------------------------------------------------------------
(* Statement files.  A file is a header line, rows, and for Raiffeisen a    *)
(* footer line; each row is written out cell by cell and read back by the  *)
(* parsers through strip() and split(";").                                 *)

sDate1 == <<"0", "5", ".", "0", "1">>
sDate2 == <<"0", "6", ".", "0", "1">>
sTime == <<"0", "0", ":", "0", "0">>
sGutschrift == <<"G", "u", "t", "s", "c", "h", "r", "i", "f", "t">>
sZahlung == <<"Z", "a", "h", "l", "u", "n", "g">>
sSammel == <<"S", "a", "m", "m", "e", "l">>
sMiete == <<"M", "i", "e", "t", "e">>
sLohn == <<"L", "o", "h", "n">>
sInfo == <<"I", "n", "f", "o">>
sHeader == <<"h", "e", "a", "d", "\n">>
sFooter == <<"f", "o", "o", "t", "\n">>

Line(cells) == Join(cells, ";") \o <<"\n">>

\* IBAN;Booked At;Text;Credit/Debit Amount;Balance;Valuta Date
RaiffLine(date, txt, amount) == Line(<<<<"C", "H">>, date, txt, amount, <<>>, <<>>>>)

\* Buchungsdatum;Valuta;Buchungstext;Belastung;Gutschrift;Saldo
AkbLine(date, txt, debit, credit) == Line(<<date, date, txt, debit, credit, <<"9">>>>)

RaiffRows ==
    { RaiffLine(sDate1 \o <<" ">> \o sTime, sZahlung \o <<" ", "M">>, <<"-", "5">>),
      RaiffLine(sDate1 \o <<" ">> \o sTime, sGutschrift \o <<" ", "K">>, <<"7">>),
      RaiffLine(sDate2 \o <<" ">> \o sTime, <<"\"">> \o sSammel \o <<"\"">>, <<"-", "9", ".", "5">>),
      RaiffLine(sDate2 \o <<" ">> \o sTime, sInfo, <<>>),
      RaiffLine(<<>>, sMiete \o <<" ", "4">>, <<>>),
      RaiffLine(<<>>, sLohn \o <<" ", "1", "'", "0", "0", "0">>, <<>>),
      RaiffLine(<<>>, <<"R", "e", "s", "t">>, <<>>),
      RaiffLine(<<>>, <<"B", " ", "0">>, <<>>) }

AkbRows ==
    { AkbLine(sDate1, <<"\"">> \o sMiete \o <<"\"">>, <<"1", "'", "2", "0", "0", ".", "5">>, <<>>),
      AkbLine(sDate1, sLohn, <<>>, <<"7">>),
      AkbLine(sDate2, sInfo, <<>>, <<>>),
      AkbLine(sDate2, <<"S", "t", "o", "r", "n", "o">>, <<"5">>, <<"5">>),
      AkbLine(sDate2, sSammel, <<"x">>, <<>>) }

\* Rows of a statement file
MaxRows == 3

SeqsUpTo(S, n) == UNION {[1..m -> S] : m \in 0..n}

StatementFiles(type) ==
    IF type = "Raiffeisen"
    THEN {<<sHeader>> \o body \o <<sFooter>> : body \in SeqsUpTo(RaiffRows, MaxRows)}
    ELSE {<<sHeader>> \o body : body \in SeqsUpTo(AkbRows, MaxRows)}

---------------------------------------------------------------------------
(* load_bank_statement_akb *)

AkbAmount(cell) == IF cell # <<>> THEN ParseFloat(Remove(cell, "'")) ELSE Ok(0)

AkbRow(id, line) ==
    LET cells == Split(Strip(line), ";")
    IN  IF Len(cells) < 5 THEN Raised
        ELSE LET b == AkbAmount(cells[4])
                 g == AkbAmount(cells[5])
             IN  IF ~b.ok \/ ~g.ok THEN Raised
                 ELSE Ok([ID |-> id,
                          Datum |-> cells[1],
                          Buchungstext |-> Strip(Remove(cells[3], "\"")),
                          Belastung |-> b.v,
                          Gutschrift |-> g.v])

load_bank_statement_akb(file) ==
    LET rows == [k \in 1..(Len(file) - 1) |-> AkbRow(k - 1, file[k + 1])]
    IN  IF AllOk(rows) THEN Ok(Values(rows)) ELSE Raised

---------------------------------------------------------------------------
(* load_bank_statement_raiffeisen *)

\* "Belastung": -amount if amount < 0 else 0.0
DebitOf(amount) == IF amount < 0 THEN 0 - amount ELSE 0

\* A variant of the sign test, for comparison: the credit side taken for any nonzero amount
CreditOfAnySign(amount) == IF amount # 0 THEN amount ELSE 0

\* "Gutschrift": amount if amount > 0 else 0.0
CreditOf(amount) == IF amount > 0 THEN amount ELSE 0

RaiffRow(line) ==
    LET cells == Split(Strip(line), ";")
    IN  IF Len(cells) < 4 THEN Raised
        ELSE LET amount == IF cells[4] # <<>> THEN ParseFloat(cells[4]) ELSE Ok(0)
             IN  IF ~amount.ok THEN Raised
                 ELSE Ok([Datum |-> Split(cells[2], " ")[1],
                          Buchungstext |-> Strip(Remove(cells[3], "\"")),
                          Belastung |-> DebitOf(amount.v),
                          Gutschrift |-> CreditOf(amount.v)])

\* The amount a row without booking date takes
CarriedAmount(prev_full_row, row) ==
    IF StartsWith(prev_full_row.Buchungstext, sGutschrift) THEN Ok(prev_full_row.Gutschrift)
    ELSE IF StartsWith(prev_full_row.Buchungstext, sZahlung) THEN Ok(prev_full_row.Belastung)
    ELSE LET words == Split(row.Buchungstext, " ")
         IN  ParseFloat(Remove(words[Len(words)], "'"))

MergedRow(prev_full_row, row, amount) ==
    [Datum |-> prev_full_row.Datum,
     Buchungstext |-> prev_full_row.Buchungstext \o <<" ">> \o row.Buchungstext,
     Belastung |-> IF prev_full_row.Belastung # 0 THEN amount ELSE 0,
     Gutschrift |-> IF prev_full_row.Gutschrift # 0 THEN amount ELSE 0]

\* A variant of the test, for comparison: the previous row carries the full row's date
PopConditionByDate(prev_row, prev_full_row) == prev_row.Datum = prev_full_row.Datum

\* if table[i-1] == prev_full_row: a comparison of two dicts, by value
PopCondition(prev_row, prev_full_row) == prev_row = prev_full_row

\* The loop over the table, k counting from 1; tbl holds the rows as changed in place
RECURSIVE MergeLoop(_, _, _, _)
MergeLoop(tbl, k, final_table, prev_full_row) ==
    IF k > Len(tbl) THEN Ok(final_table)
    ELSE IF k > 1 /\ tbl[k].Datum = <<>>
    THEN LET amount == CarriedAmount(prev_full_row, tbl[k])
         IN  IF ~amount.ok THEN Raised
             ELSE LET row == MergedRow(prev_full_row, tbl[k], amount.v)
                      kept == IF PopCondition(tbl[k - 1], prev_full_row)
                              THEN SubSeq(final_table, 1, Len(final_table) - 1)
                              ELSE final_table
                  IN  MergeLoop([tbl EXCEPT ![k] = row], k + 1, Append(kept, row),
                                prev_full_row)
    ELSE MergeLoop(tbl, k + 1, Append(final_table, tbl[k]), tbl[k])

\* for i, row in enumerate(final_table): row["ID"] = i
SetRowIds(final_table) ==
    [k \in 1..Len(final_table) |->
        [ID |-> k - 1,
         Datum |-> final_table[k].Datum,
         Buchungstext |-> final_table[k].Buchungstext,
         Belastung |-> final_table[k].Belastung,
         Gutschrift |-> final_table[k].Gutschrift]]

\* lines[1:-1], row by row
RaiffTable(file) == [k \in 1..(Len(file) - 2) |-> RaiffRow(file[k + 1])]

load_bank_statement_raiffeisen(file) ==
    LET tbl == RaiffTable(file)
    IN  IF ~AllOk(tbl) THEN Raised
        ELSE LET final_table == MergeLoop(Values(tbl), 1, <<>>, <<>>)
             IN  IF ~final_table.ok THEN Raised ELSE Ok(SetRowIds(final_table.v))

load_bank_statement(file, type) ==
    IF type = "Raiffeisen" THEN load_bank_statement_raiffeisen(file)
    ELSE IF type = "AKB" THEN load_bank_statement_akb(file)
    ELSE Raised

---------------------------------------------------------------------------
(* Category definitions: a dict from category name to its list of          *)
(* patterns, kept as the sequence of its items in insertion order.         *)

sUnknown == <<"u", "n", "k", "n", "o", "w", "n">>
sFood == <<"F", "o", "o", "d">>
sGrocery == <<"G", "r", "o", "c", "e", "r", "y">>
sMigros == <<"M", "i", "g", "r", "o", "s">>
sFiliale == <<"F", "i", "l", "i", "a", "l", "e">>

HasKey(dict, key) == \E k \in 1..Len(dict) : dict[k].key = key

KeyIndex(dict, key) == CHOOSE k \in 1..Len(dict) : dict[k].key = key

Get(dict, key) == dict[KeyIndex(dict, key)].val

\* dict[key] = val: a new key goes last, a known key keeps its place
Put(dict, key, val) ==
    IF HasKey(dict, key) THEN [dict EXCEPT ![KeyIndex(dict, key)].val = val]
    ELSE Append(dict, [key |-> key, val |-> val])

\* list(dict.keys())
Keys(dict) == [k \in 1..Len(dict) |-> dict[k].key]

RECURSIVE InvertPatterns(_, _, _)
InvertPatterns(inv, cat, patterns) ==
    IF patterns = <<>> THEN inv
    ELSE InvertPatterns(Put(inv, Head(patterns), cat), cat, Tail(patterns))

RECURSIVE InvertItems(_, _)
InvertItems(inv, items) ==
    IF items = <<>> THEN inv
    ELSE InvertItems(InvertPatterns(inv, Head(items).key, Head(items).val), Tail(items))

invert_categories(cats) == InvertItems(<<>>, cats)

---------------------------------------------------------------------------
(* add_category *)

\* A variant of the comparison, for comparison runs: a pattern as long as the best one replaces it
AtLeastAsLong(pat, pat_len) == Len(pat) >= pat_len

\* len(pat) > pat_len
LongerThan(pat, pat_len) == Len(pat) > pat_len

\* pat.lower() in row["Buchungstext"].lower()
PatternMatches(pat, description) == Contains(Lower(pat), Lower(description))

\* for pat, cat in categories_inv.items()
RECURSIVE ResolveLoop(_, _, _, _)
ResolveLoop(items, description, cat, pat_len) ==
    IF items = <<>> THEN cat
    ELSE IF PatternMatches(Head(items).key, description) /\ LongerThan(Head(items).key, pat_len)
    THEN ResolveLoop(Tail(items), description, Head(items).val, Len(Head(items).key))
    ELSE ResolveLoop(Tail(items), description, cat, pat_len)

WithCategory(row, cat) ==
    [ID |-> row.ID, Datum |-> row.Datum, Buchungstext |-> row.Buchungstext,
     Belastung |-> row.Belastung, Gutschrift |-> row.Gutschrift, Kategorie |-> cat]

add_category(tbl, cats) ==
    LET categories_inv == invert_categories(cats)
    IN  [k \in 1..Len(tbl) |->
            WithCategory(tbl[k], ResolveLoop(categories_inv, tbl[k].Buchungstext, sUnknown, 0))]

---------------------------------------------------------------------------
(* apply_filter *)

kID == <<"I", "D">>
kDatum == <<"D", "a", "t", "u", "m">>
kBuchungstext == <<"B", "u", "c", "h", "u", "n", "g", "s", "t", "e", "x", "t">>
kBelastung == <<"B", "e", "l", "a", "s", "t", "u", "n", "g">>
kGutschrift == sGutschrift
kKategorie == <<"K", "a", "t", "e", "g", "o", "r", "i", "e">>
sKategorieIdx == kKategorie \o <<"I", "d", "x">>

\* table[0].keys(): the keys of a row in the order the parser and add_category set them
RowKeys(type) ==
    IF type = "AKB"
    THEN <<kID, kDatum, kBuchungstext, kBelastung, kGutschrift, kKategorie>>
    ELSE <<kDatum, kBuchungstext, kBelastung, kGutschrift, kID, kKategorie>>

\* row[key], with the Python type of the value
FieldValue(row, key) ==
    IF key = kID THEN [kind |-> "int", n |-> row.ID, s |-> <<>>]
    ELSE IF key = kBelastung THEN [kind |-> "float", n |-> row.Belastung, s |-> <<>>]
    ELSE IF key = kGutschrift THEN [kind |-> "float", n |-> row.Gutschrift, s |-> <<>>]
    ELSE IF key = kDatum THEN [kind |-> "str", n |-> 0, s |-> row.Datum]
    ELSE IF key = kBuchungstext THEN [kind |-> "str", n |-> 0, s |-> row.Buchungstext]
    ELSE [kind |-> "str", n |-> 0, s |-> row.Kategorie]

\* str(a)
StrOf(a) ==
    IF a.kind = "str" THEN a.s
    ELSE IF a.kind = "float" THEN FloatStr(a.n)
    ELSE NatStr(a.n)

\* float(a)
NumOf(a) ==
    IF a.kind = "str" THEN ParseFloat(a.s)
    ELSE IF a.kind = "float" THEN Ok(a.n)
    ELSE Ok(1000 * a.n)

FilterOps == <<"=", "<", ">", "?", "!">>

\* for fullkey in table[0].keys(): the place of the first key holding tmpkey, or 0
FirstKey(tmpkey, keys) ==
    IF \E k \in 1..Len(keys) : Contains(Lower(tmpkey), Lower(keys[k]))
    THEN CHOOSE k \in 1..Len(keys) :
            /\ Contains(Lower(tmpkey), Lower(keys[k]))
            /\ \A m \in 1..(k - 1) : ~Contains(Lower(tmpkey), Lower(keys[m]))
    ELSE 0

\* The filter of one operator found in filter_part
MakeFilter(filter_part, operator, tbl, keys, cats) ==
    LET pieces == Split(filter_part, operator)
    IN  IF Len(pieces) # 2 THEN Raised
        ELSE IF tbl = <<>> THEN Raised
        ELSE LET tmpkey == pieces[1]
                 value == pieces[2]
                 found == FirstKey(tmpkey, keys)
             IN  IF found # 0
                 THEN Ok([operator |-> operator, key |-> keys[found], value |-> value])
                 ELSE IF Contains(Lower(tmpkey), Lower(sKategorieIdx))
                 THEN LET n == ParseInt(value)
                      IN  IF ~n.ok THEN Raised
                          ELSE IF n.v >= Len(cats) \/ n.v < 0 - Len(cats) THEN Raised
                          ELSE Ok([operator |-> operator, key |-> kKategorie,
                                   value |-> Keys(cats)[(IF n.v < 0 THEN Len(cats) + n.v
                                                         ELSE n.v) + 1]])
                 ELSE Raised

\* for operator in ["=", "<", ">", "?", "!"], from the o-th on
RECURSIVE PartFilters(_, _, _, _, _, _)
PartFilters(filter_part, o, filters, tbl, keys, cats) ==
    IF o > Len(FilterOps) THEN Ok(filters)
    ELSE IF ~Contains(<<FilterOps[o]>>, filter_part)
    THEN PartFilters(filter_part, o + 1, filters, tbl, keys, cats)
    ELSE LET f == MakeFilter(filter_part, FilterOps[o], tbl, keys, cats)
         IN  IF ~f.ok THEN Raised
             ELSE PartFilters(filter_part, o + 1, Append(filters, f.v), tbl, keys, cats)

\* for filter_part in filter_str.split(",")
RECURSIVE AllFilters(_, _, _, _, _)
AllFilters(parts, filters, tbl, keys, cats) ==
    IF parts = <<>> THEN Ok(filters)
    ELSE LET more == PartFilters(Strip(Head(parts)), 1, filters, tbl, keys, cats)
         IN  IF ~more.ok THEN Raised ELSE AllFilters(Tail(parts), more.v, tbl, keys, cats)

\* A variant of the comparison, for comparison runs: the boundary is let through
GreaterOrEqual(x, y) == x >= y

\* float(a) > float(b)
GreaterThan(x, y) == x > y

\* float(a) < float(b)
LessThan(x, y) == x < y

\* a == float(b) if str(a)[0].isdigit() else a == b
IsMatchEqual(a, b) ==
    IF StrOf(a) = <<>> THEN Raised
    ELSE IF IsDigit(StrOf(a)[1])
    THEN LET fb == ParseFloat(b)
         IN  IF ~fb.ok THEN Raised ELSE Ok(a.kind # "str" /\ NumOf(a).v = fb.v)
    ELSE Ok(a.kind = "str" /\ a.s = b)

IsMatchOrder(operator, a, b) ==
    LET fa == NumOf(a)
        fb == ParseFloat(b)
    IN  IF ~fa.ok \/ ~fb.ok THEN Raised
        ELSE Ok(IF operator = "<" THEN LessThan(fa.v, fb.v) ELSE GreaterThan(fa.v, fb.v))

\* f["is_match"](a, b)
is_match(operator, a, b) ==
    IF operator = "=" THEN IsMatchEqual(a, b)
    ELSE IF operator \in {"<", ">"} THEN IsMatchOrder(operator, a, b)
    ELSE IF operator = "?" THEN Ok(Contains(Lower(b), Lower(StrOf(a))))
    ELSE Ok(~Contains(Lower(b), Lower(StrOf(a))))

\* is_match = is_match and f["is_match"](...): a filter after a failed one is not called
RECURSIVE RowMatches(_, _)
RowMatches(row, filters) ==
    IF filters = <<>> THEN Ok(TRUE)
    ELSE LET m == is_match(Head(filters).operator, FieldValue(row, Head(filters).key),
                           Head(filters).value)
         IN  IF ~m.ok THEN Raised
             ELSE IF ~m.v THEN Ok(FALSE)
             ELSE RowMatches(row, Tail(filters))

apply_filter(tbl, filter, cats, keys) ==
    IF Len(filter) = 0 THEN Ok(tbl)
    ELSE LET filters == AllFilters(Split(filter, ","), <<>>, tbl, keys, cats)
         IN  IF ~filters.ok THEN Raised
             ELSE LET matches == [k \in 1..Len(tbl) |-> RowMatches(tbl[k], filters.v)]
                  IN  IF ~AllOk(matches) THEN Raised
                      ELSE Ok(SelectSeq(tbl, LAMBDA row : RowMatches(row, filters.v).v))

---------------------------------------------------------------------------
(* print_to_stdout, the summary *)

sTotal == <<"G", "E", "S", "A", "M", "T", "-", "T", "O", "T", "A", "L">>

\* dummy = { "Kategorie": "", "Belastung": "", "Gutschrift": "" }
DummyRow == [Kategorie |-> <<>>, Belastung |-> <<>>, Gutschrift |-> <<>>]

\* for i, row in enumerate(table): the sums by category, in the order of first sight
RECURSIVE SumLoop(_, _)
SumLoop(tbl, sums) ==
    IF tbl = <<>> THEN sums
    ELSE LET row == Head(tbl)
             known == IF HasKey(sums, row.Kategorie) THEN sums
                      ELSE Put(sums, row.Kategorie, [Belastung |-> 0, Gutschrift |-> 0])
             old == Get(known, row.Kategorie)
         IN  SumLoop(Tail(tbl),
                     Put(known, row.Kategorie,
                         [Belastung |-> old.Belastung + row.Belastung,
                          Gutschrift |-> old.Gutschrift + row.Gutschrift]))

\* The sums of all rows, kept beside the sums by category
RECURSIVE TotalLoop(_, _)
TotalLoop(tbl, sums_of_sums) ==
    IF tbl = <<>> THEN sums_of_sums
    ELSE TotalLoop(Tail(tbl),
                   [sums_of_sums EXCEPT !.Belastung = @ + Head(tbl).Belastung,
                                        !.Gutschrift = @ + Head(tbl).Gutschrift])

RECURSIVE InsertSorted(_, _)
InsertSorted(sorted, key) ==
    IF sorted = <<>> THEN <<key>>
    ELSE IF StrLess(key, Head(sorted)) THEN <<key>> \o sorted
    ELSE <<Head(sorted)>> \o InsertSorted(Tail(sorted), key)

\* keys.sort()
RECURSIVE Sort(_)
Sort(keys) == IF keys = <<>> THEN <<>> ELSE InsertSorted(Sort(Tail(keys)), Head(keys))

\* A variant of the test, for comparison: the total follows a single category too
AtLeastOne(rows) == Len(rows) >= 1

\* if len(table) > 1
MoreThanOne(rows) == Len(rows) > 1

\* The table print_as_table is given
Summary(tbl) ==
    LET sums == SumLoop(tbl, <<>>)
        sums_of_sums == TotalLoop(tbl, [Kategorie |-> sTotal, Belastung |-> 0, Gutschrift |-> 0])
        keys == Sort(Keys(sums))
        rows == [k \in 1..Len(keys) |->
                    [Kategorie |-> keys[k],
                     Belastung |-> Round2(Get(sums, keys[k]).Belastung),
                     Gutschrift |-> Round2(Get(sums, keys[k]).Gutschrift)]]
    IN  IF MoreThanOne(rows)
        THEN rows \o <<DummyRow,
                       [sums_of_sums EXCEPT !.Belastung = Round2(@), !.Gutschrift = Round2(@)]>>
        ELSE rows

---------------------------------------------------------------------------
(* The parsers, called on every statement file of the bounds *)

\* What the variables a specification does not use hold
Unused == <<>>

InitParse ==
    /\ statement_type \in {"AKB", "Raiffeisen", "UBS"}
    /\ lines \in StatementFiles(statement_type)
    /\ pc = "call"
    /\ out = Unused
    /\ filter_str = Unused /\ disk = Unused /\ categories = Unused /\ table = Unused
    /\ last_idx = 0 /\ i = 0 /\ row_pos = 0 /\ category = Unused /\ text = Unused
    /\ hist = Unused

CallLoad ==
    /\ pc = "call"
    /\ out' = load_bank_statement(lines, statement_type)
    /\ pc' = "returned"
    /\ UNCHANGED <<statement_type, lines, filter_str, disk, categories, table, last_idx,
                   i, row_pos, category, text, hist>>

NextParse == CallLoad

SpecParse == InitParse /\ [][NextParse]_vars

Returned == pc = "returned" /\ out.ok

\* The rows of the file before the merge
SourceRows == Values(RaiffTable(lines))

\* A row without booking date, the first row excepted: the code's test
IsContinuation(tbl, k) == k > 1 /\ tbl[k].Datum = <<>>

\* A row without booking date: the claim's test
IsEmptyDate(tbl, k) == tbl[k].Datum = <<>>

\* The full row a continuation row hangs on
FullRowOf(tbl, k) ==
    CHOOSE m \in 1..k : ~IsContinuation(tbl, m) /\ \A n \in (m + 1)..k : IsContinuation(tbl, n)

\* The rows that reach the output: every continuation row, and every full row that no
\* continuation row follows at once
Survives(tbl, k) ==
    IsContinuation(tbl, k) \/ ~(k < Len(tbl) /\ IsContinuation(tbl, k + 1))

SurvivorIndices(tbl) == SelectSeq([k \in 1..Len(tbl) |-> k], LAMBDA k : Survives(tbl, k))

\* C5 (amended): with the first row counted as a full row whatever its date, the merge
\* returns one record per continuation row (the full row's date, the two descriptions
\* joined by a space) and one per full row not followed at once by a continuation
\* row, in the order of the file; a full row is removed once, by its first continuation.
C5_MergeCount ==
    (Returned /\ statement_type = "Raiffeisen") =>
        LET tbl == SourceRows
            idx == SurvivorIndices(tbl)
        IN  /\ Len(out.v) = Len(idx)
            /\ Len(out.v) = Cardinality({k \in 1..Len(tbl) : IsContinuation(tbl, k)})
                        + Cardinality({k \in 1..Len(tbl) :
                              /\ ~IsContinuation(tbl, k)
                              /\ ~(k < Len(tbl) /\ IsContinuation(tbl, k + 1))})
            /\ \A j \in 1..Len(idx) :
                  LET k == idx[j]
                      full == tbl[FullRowOf(tbl, k)]
                  IN  /\ out.v[j].ID = j - 1
                      /\ out.v[j].Datum = full.Datum
                      /\ out.v[j].Buchungstext =
                            IF IsContinuation(tbl, k)
                            THEN full.Buchungstext \o <<" ">> \o tbl[k].Buchungstext
                            ELSE tbl[k].Buchungstext

\* C5 witness: a full row followed by two continuation rows has given two records
C5_Witness ==
    /\ Returned /\ statement_type = "Raiffeisen"
    /\ Len(SourceRows) = 3
    /\ SourceRows[1].Datum # <<>>
    /\ IsContinuation(SourceRows, 2) /\ IsContinuation(SourceRows, 3)
    /\ Len(out.v) = 2

\* C5 as claimed: full rows are the rows with a date, continuation rows the rows
\* without, and the output holds one record per continuation row plus one per full row
\* not followed at once by a continuation row.
C5_Original ==
    (Returned /\ statement_type = "Raiffeisen") =>
        LET tbl == SourceRows
        IN  Len(out.v) = Cardinality({k \in 1..Len(tbl) : IsEmptyDate(tbl, k)})
                     + Cardinality({k \in 1..Len(tbl) :
                           /\ ~IsEmptyDate(tbl, k)
                           /\ ~(k < Len(tbl) /\ IsEmptyDate(tbl, k + 1))})

OneSided(row) == (row.Belastung # 0) # (row.Gutschrift # 0)

\* Whether an amount cell of an AKB row holds a nonzero amount
AkbCellNonzero(cell) == cell # <<>> /\ ParseFloat(Remove(cell, "'")).v # 0

---------------------------------------------------------------------------
(* The resolver, called on every definitions mapping of the bounds *)

Patterns ==
    { <<>>,
      <<"m", "i", "g">>,
      <<"M", "I", "G">>,
      sMigros \o <<" ", "F">> }

\* Patterns of one category
MaxPatterns == 2

CategoryNames == {sFood, sGrocery}

\* Every dict over CategoryNames, in every key order, of at most n patterns a category
CategoryDicts(n) ==
    LET lists == SeqsUpTo(Patterns, n)
        orders == {o \in SeqsUpTo(CategoryNames, Cardinality(CategoryNames)) :
                      \A a, b \in 1..Len(o) : a # b => o[a] # o[b]}
    IN  UNION {{[k \in 1..Len(o) |-> [key |-> o[k], val |-> l[k]]] :
                    l \in [1..Len(o) -> lists]} : o \in orders}

PlainRow(id, description, debit, credit) ==
    [ID |-> id, Datum |-> sDate1, Buchungstext |-> description,
     Belastung |-> debit, Gutschrift |-> credit]

ResolverTable ==
    << PlainRow(0, sMigros \o <<" ">> \o sFiliale, 10000, 0),
       PlainRow(1, <<"M", "I", "G", "R", "O", "S">>, 75000, 0),
       PlainRow(2, <<"C", "o", "o", "p">>, 0, 50000),
       PlainRow(3, <<>>, 50000, 0) >>

InitResolve ==
    /\ categories \in CategoryDicts(MaxPatterns)
    /\ table = ResolverTable
    /\ pc = "call"
    /\ out = Unused
    /\ statement_type = Unused /\ lines = Unused /\ filter_str = Unused /\ disk = Unused
    /\ last_idx = 0 /\ i = 0 /\ row_pos = 0 /\ category = Unused /\ text = Unused
    /\ hist = Unused

CallAddCategory ==
    /\ pc = "call"
    /\ out' = Ok(add_category(table, categories))
    /\ pc' = "returned"
    /\ UNCHANGED <<statement_type, lines, filter_str, disk, categories, table, last_idx,
                   i, row_pos, category, text, hist>>

NextResolve == CallAddCategory

SpecResolve == InitResolve /\ [][NextResolve]_vars

\* The places, in the inverted mapping, of the patterns found in a description
MatchingAny(inv, description) ==
    {k \in 1..Len(inv) : Contains(Lower(inv[k].key), Lower(description))}

MatchingNonEmpty(inv, description) ==
    {k \in MatchingAny(inv, description) : inv[k].key # <<>>}

\* The category of the longest pattern among those at the places M, the first iterated
\* of the longest ones; "unknown" when M is empty
CategoryOfLongest(inv, M) ==
    IF M = {} THEN sUnknown
    ELSE LET best == CHOOSE k \in M :
                        \A m \in M : \/ Len(inv[m].key) < Len(inv[k].key)
                                     \/ (Len(inv[m].key) = Len(inv[k].key) /\ k <= m)
         IN  inv[best].val

\* C7 (amended): add_category gives every record the category of the longest non-empty
\* pattern found in its description, compared without case, the first iterated in the
\* inverted mapping among the longest; "unknown" when no non-empty pattern is found.
C7_LongestNonEmptyWins ==
    Returned =>
        LET inv == invert_categories(categories)
        IN  \A k \in 1..Len(out.v) :
                out.v[k].Kategorie =
                    CategoryOfLongest(inv, MatchingNonEmpty(inv, table[k].Buchungstext))

\* C7 witness: a longer pattern iterated after a shorter one of another category, both
\* found in the description, has decided the category
C7_Witness ==
    /\ Returned
    /\ LET inv == invert_categories(categories)
       IN  \E r \in 1..Len(out.v) :
               \E k, m \in MatchingNonEmpty(inv, table[r].Buchungstext) :
                   /\ m < k
                   /\ Len(inv[m].key) < Len(inv[k].key)
                   /\ inv[m].val # inv[k].val
                   /\ out.v[r].Kategorie = inv[k].val

\* C7 as claimed: patterns of any length count, the empty pattern too.
C7_Original ==
    Returned =>
        LET inv == invert_categories(categories)
        IN  \A k \in 1..Len(out.v) :
                out.v[k].Kategorie =
                    CategoryOfLongest(inv, MatchingAny(inv, table[k].Buchungstext))

---------------------------------------------------------------------------
(* The filter engine, called on every table and filter expression of the bounds *)

FilterCategories ==
    << [key |-> sFood, val |-> <<sMigros \o <<" ", "F">>>>],
       [key |-> sGrocery, val |-> <<<<"c", "o", "o", "p">>>>] >>

FilterRowKinds ==
    { [description |-> sMigros \o <<" ">> \o sFiliale, debit |-> 10000, credit |-> 0],
      [description |-> <<"M", "I", "G", "R", "O", "S">>, debit |-> 75000, credit |-> 0],
      [description |-> <<"C", "o", "o", "p">>, debit |-> 50000, credit |-> 0],
      [description |-> sLohn, debit |-> 0, credit |-> 50000] }

\* Rows of a table
MaxTable == 2

FilterTables(n) ==
    {add_category([k \in 1..Len(kinds) |->
                      PlainRow(k - 1, kinds[k].description, kinds[k].debit, kinds[k].credit)],
                  FilterCategories) : kinds \in SeqsUpTo(FilterRowKinds, n)}

\* A clause is written field, operator, value
Clause(field, operator, value) == [field |-> field, operator |-> operator, value |-> value]

FilterClauses ==
    { Clause(<<"B", "e", "l">>, ">", <<"5", "0">>),
      Clause(<<"K", "a", "t">>, "=", sUnknown),
      Clause(<<"G", "u", "t">>, "=", <<"5", "0">>),
      Clause(<<"B", "u", "c", "h">>, "?", <<"m", "i", "g">>),
      Clause(<<"t", "e", "x", "t">>, "!", <<"F", "I", "L">>),
      Clause(<<"i", "d", "x">>, "=", <<"1">>),
      Clause(<<"i">>, "<", <<"1">>) }

\* Clauses of a filter expression
MaxClauses == 2

Render(clauses) ==
    Join([k \in 1..Len(clauses) |->
             clauses[k].field \o <<clauses[k].operator>> \o clauses[k].value], ",")

InitFilter ==
    /\ statement_type \in {"AKB", "Raiffeisen"}
    /\ table \in FilterTables(MaxTable)
    /\ categories = FilterCategories
    /\ hist \in SeqsUpTo(FilterClauses, MaxClauses)
    /\ filter_str = Render(hist)
    /\ pc = "call"
    /\ out = Unused
    /\ lines = Unused /\ disk = Unused
    /\ last_idx = 0 /\ i = 0 /\ row_pos = 0 /\ category = Unused /\ text = Unused

CallApplyFilter ==
    /\ pc = "call"
    /\ out' = apply_filter(table, filter_str, categories, RowKeys(statement_type))
    /\ pc' = "returned"
    /\ UNCHANGED <<statement_type, lines, filter_str, disk, categories, table, last_idx,
                   i, row_pos, category, text, hist>>

NextFilter == CallApplyFilter

SpecFilter == InitFilter /\ [][NextFilter]_vars

\* The field a clause names: the first key holding the clause's field, or Kategorie for
\* a part of "KategorieIdx"
ClauseKey(clause) ==
    LET keys == RowKeys(statement_type)
        holding == {k \in 1..Len(keys) : Contains(Lower(clause.field), Lower(keys[k]))}
    IN  IF holding # {} THEN keys[CHOOSE k \in holding : \A m \in holding : k <= m]
        ELSE kKategorie

\* The operand of a clause: the category at the given place for "KategorieIdx"
ClauseOperand(clause) ==
    IF \E k \in 1..Len(RowKeys(statement_type)) :
           Contains(Lower(clause.field), Lower(RowKeys(statement_type)[k]))
    THEN clause.value
    ELSE Keys(categories)[ParseInt(clause.value).v + 1]

\* Whether a row satisfies a clause; a comparison that cannot be made satisfies nothing
Satisfies(row, clause) ==
    LET a == FieldValue(row, ClauseKey(clause))
        b == ClauseOperand(clause)
    IN  IF clause.operator = "="
        THEN IF a.kind = "str"
             THEN a.s # <<>> /\ ~IsDigit(a.s[1]) /\ a.s = b
             ELSE ParseFloat(b).ok /\ NumOf(a).v = ParseFloat(b).v
        ELSE IF clause.operator = "<"
        THEN NumOf(a).ok /\ ParseFloat(b).ok /\ NumOf(a).v < ParseFloat(b).v
        ELSE IF clause.operator = ">"
        THEN NumOf(a).ok /\ ParseFloat(b).ok /\ NumOf(a).v > ParseFloat(b).v
        ELSE IF clause.operator = "?"
        THEN Contains(Lower(b), Lower(StrOf(a)))
        ELSE ~Contains(Lower(b), Lower(StrOf(a)))

SatisfiesAll(row, clauses) == \A k \in 1..Len(clauses) : Satisfies(row, clauses[k])

\* C8: when apply_filter returns, it returns exactly the rows that satisfy every clause,
\* in their order and once each; a row whose value equals the operand of a > or <
\* clause is left out; the empty expression returns the table as it is.
C8_FilterIsConjunction ==
    Returned =>
        /\ out.v = SelectSeq(table, LAMBDA row : SatisfiesAll(row, hist))
        /\ \A k \in 1..Len(out.v) : \A c \in 1..Len(hist) :
              hist[c].operator \in {"<", ">"} =>
                  NumOf(FieldValue(out.v[k], ClauseKey(hist[c]))).v
                      # ParseFloat(ClauseOperand(hist[c])).v
        /\ \A a, b \in 1..Len(out.v) : a < b => out.v[a].ID < out.v[b].ID
        /\ filter_str = <<>> => out.v = table

\* C8 witness: a filter of two clauses has let through one row and held back a row that
\* equals the operand of its > clause and satisfies its other clause
C8_Witness ==
    /\ Returned
    /\ Len(hist) = 2
    /\ \E c \in 1..2 :
          /\ hist[c].operator = ">"
          /\ \E k \in 1..Len(table) :
                /\ NumOf(FieldValue(table[k], ClauseKey(hist[c]))).v
                      = ParseFloat(hist[c].value).v
                /\ Satisfies(table[k], hist[3 - c])
    /\ Len(table) = 2
    /\ Len(out.v) = 1

---------------------------------------------------------------------------
(* The summary, made of every table of the bounds.  The amounts hold        *)
(* thousandths, and no sum of them lies halfway between two hundredths.    *)

sAuto == <<"a", "u", "t", "o">>

SummaryRowKinds ==
    { [Kategorie |-> c, Belastung |-> a[1], Gutschrift |-> a[2]] :
          c \in {sFood, sAuto, sUnknown}, a \in {<<4, 0>>, <<10000, 0>>, <<0, 20006>>} }

\* Rows of a table to sum up
MaxSummaryRows == 3

SummaryTables(n) ==
    { [k \in 1..Len(kinds) |->
          WithCategory(PlainRow(k - 1, sInfo, kinds[k].Belastung, kinds[k].Gutschrift),
                       kinds[k].Kategorie)] : kinds \in SeqsUpTo(SummaryRowKinds, n) }

InitSummary ==
    /\ table \in SummaryTables(MaxSummaryRows)
    /\ pc = "call"
    /\ out = Unused
    /\ statement_type = Unused /\ lines = Unused /\ filter_str = Unused /\ disk = Unused
    /\ categories = Unused
    /\ last_idx = 0 /\ i = 0 /\ row_pos = 0 /\ category = Unused /\ text = Unused
    /\ hist = Unused

CallSummary ==
    /\ pc = "call"
    /\ out' = Ok(Summary(table))
    /\ pc' = "returned"
    /\ UNCHANGED <<statement_type, lines, filter_str, disk, categories, table, last_idx,
                   i, row_pos, category, text, hist>>

NextSummary == CallSummary

SpecSummary == InitSummary /\ [][NextSummary]_vars

CategoriesIn(tbl) == {tbl[k].Kategorie : k \in 1..Len(tbl)}

RECURSIVE DebitSum(_, _)
DebitSum(tbl, cats) ==
    IF tbl = <<>> THEN 0
    ELSE (IF Head(tbl).Kategorie \in cats THEN Head(tbl).Belastung ELSE 0)
         + DebitSum(Tail(tbl), cats)

RECURSIVE CreditSum(_, _)
CreditSum(tbl, cats) ==
    IF tbl = <<>> THEN 0
    ELSE (IF Head(tbl).Kategorie \in cats THEN Head(tbl).Gutschrift ELSE 0)
         + CreditSum(Tail(tbl), cats)

\* The rows of the summary before the separator
CategoryRows(summary) ==
    IF Len(summary) >= 2 /\ summary[Len(summary)].Kategorie = sTotal
    THEN SubSeq(summary, 1, Len(summary) - 2)
    ELSE summary

HasTotal(summary) ==
    /\ Len(summary) >= 2
    /\ summary[Len(summary)].Kategorie = sTotal
    /\ summary[Len(summary) - 1].Kategorie = <<>>

\* C9 (amended): the summary holds one row per category of the table, sorted by name,
\* with the category's sums of debits and of credits rounded to two decimals; the
\* separator and the "GESAMT-TOTAL" row follow exactly when the table holds more than one
\* category, and the total row holds the sums over all records, rounded to two decimals.
C9_SummaryRounded ==
    Returned =>
        LET cats == CategoriesIn(table)
            rows == CategoryRows(out.v)
        IN  /\ Len(rows) = Cardinality(cats)
            /\ {rows[k].Kategorie : k \in 1..Len(rows)} = cats
            /\ \A a, b \in 1..Len(rows) : a < b => StrLess(rows[a].Kategorie, rows[b].Kategorie)
            /\ \A k \in 1..Len(rows) :
                  /\ rows[k].Belastung = Round2(DebitSum(table, {rows[k].Kategorie}))
                  /\ rows[k].Gutschrift = Round2(CreditSum(table, {rows[k].Kategorie}))
            /\ HasTotal(out.v) <=> Cardinality(cats) > 1
            /\ Len(out.v) = Len(rows) + (IF Cardinality(cats) > 1 THEN 2 ELSE 0)
            /\ HasTotal(out.v) =>
                  /\ out.v[Len(out.v)].Belastung = Round2(DebitSum(table, cats))
                  /\ out.v[Len(out.v)].Gutschrift = Round2(CreditSum(table, cats))

\* C9 witness: a summary of two categories, one of them of two records, with its total
C9_Witness ==
    /\ Returned
    /\ Len(table) = 3
    /\ Cardinality(CategoriesIn(table)) = 2
    /\ HasTotal(out.v)
    /\ out.v[Len(out.v)].Belastung > 0
    /\ out.v[Len(out.v)].Gutschrift > 0

\* C9 as claimed: the rows hold the sums themselves, and the total row the sums over all
\* records, which are the sums of the rows above it.
C9_Original ==
    Returned =>
        LET cats == CategoriesIn(table)
            rows == CategoryRows(out.v)
        IN  /\ Len(rows) = Cardinality(cats)
            /\ \A k \in 1..Len(rows) :
                  /\ rows[k].Belastung = DebitSum(table, {rows[k].Kategorie})
                  /\ rows[k].Gutschrift = CreditSum(table, {rows[k].Kategorie})
            /\ HasTotal(out.v) <=> Cardinality(cats) > 1
            /\ HasTotal(out.v) =>
                  /\ out.v[Len(out.v)].Belastung = DebitSum(table, cats)
                  /\ out.v[Len(out.v)].Gutschrift = CreditSum(table, cats)
                  /\ out.v[Len(out.v)].Belastung = DebitSum(rows, cats)
                  /\ out.v[Len(out.v)].Gutschrift = CreditSum(rows, cats)

---------------------------------------------------------------------------
(* classify_interactive.  The program stands at "load" (the head of the    *)
(* outer loop), "scan" (the head of the inner loop), one of the two        *)
(* prompts, inside store_categories ("store_open", "store_write"), at      *)
(* "check" (the test after the inner loop), or has ended: "done",          *)
(* "error" (an exception reached the top level) or "interrupted" (ctrl-c). *)

sCoop == <<"C", "o", "o", "p">>
sBar == <<"B", "a", "r">>
sNew == <<"N", "e", "w">>

\* Rows of the statement the operator classifies
MaxRecords == 4

\* Classifications the operator accepts in one run
MaxAccepts == 2

Descriptions == {sCoop \o <<" ", "A">>, sBar}

InteractiveFiles ==
    {<<sHeader>> \o [k \in 1..Len(d) |-> AkbLine(sDate1, d[k], <<"5">>, <<>>)] :
        d \in SeqsUpTo(Descriptions, MaxRecords)}

InteractiveFilters == {<<>>, <<"K", "a", "t", "=">> \o sUnknown}

InitialDefinitions == {<<>>, <<[key |-> sFood, val |-> <<<<"b", "a", "r">>>>]>>}

\* What the operator types at the category prompt
CategoryInputs == {<<>>, <<"1">>, <<"7">>, sFood, sNew}

\* What the operator types at the pattern prompt
PatternInputs == {<<>>, <<"c", "o", "o", "p">>, <<"z", "z">>}

\* i before the inner loop has bound it
Unbound == 0 - 1

Init ==
    /\ statement_type = "AKB"
    /\ lines \in InteractiveFiles
    /\ filter_str \in InteractiveFilters
    /\ disk \in InitialDefinitions
    /\ categories = <<>>
    /\ table = <<>>
    /\ last_idx = 0
    /\ i = Unbound
    /\ row_pos = 0
    /\ category = <<>>
    /\ text = <<>>
    /\ pc = "load"
    /\ out = Unused
    /\ hist = [shown |-> {}, accepted |-> <<>>, before |-> disk, after |-> disk,
               reloaded |-> disk, broke |-> FALSE, accept_pos |-> Unbound,
               prev_offset |-> 0, first |-> Unbound, shown_pos |-> Unbound,
               restarted |-> FALSE, resume |-> Unbound]

\* The row at hand: row of `for i, row in enumerate(table[last_idx:])`
Row == table[last_idx + i + 1]

\* yaml.dump writes a mapping with its keys sorted
SortedDocument(cats) ==
    LET keys == Sort(Keys(cats))
    IN  [k \in 1..Len(keys) |-> [key |-> keys[k], val |-> Get(cats, keys[k])]]

\* The head of the outer loop: definitions and statement are read, the table is made
Load ==
    /\ pc = "load"
    /\ \E loaded \in {load_bank_statement(lines, statement_type)} :
       \E resolved \in {IF loaded.ok THEN Ok(add_category(loaded.v, disk)) ELSE Raised} :
       \E filtered \in {IF resolved.ok
                        THEN apply_filter(resolved.v, filter_str, disk,
                                          RowKeys(statement_type))
                        ELSE Raised} :
          IF filtered.ok
          THEN /\ categories' = disk
               /\ table' = filtered.v
               /\ row_pos' = 0
               /\ pc' = "scan"
               /\ hist' = [hist EXCEPT !.reloaded = disk, !.first = Unbound,
                                       !.restarted = hist.broke,
                                       !.resume = hist.accept_pos]
          ELSE /\ pc' = "error"
               /\ UNCHANGED <<categories, table, row_pos, hist>>
    /\ UNCHANGED <<statement_type, lines, filter_str, disk, last_idx, i, category, text, out>>

\* The inner loop takes a row that has a category and goes on
ScanSkip ==
    /\ pc = "scan"
    /\ last_idx + row_pos < Len(table)
    /\ table[last_idx + row_pos + 1].Kategorie # sUnknown
    /\ i' = row_pos
    /\ row_pos' = row_pos + 1
    /\ hist' = [hist EXCEPT !.first = IF @ = Unbound THEN last_idx + row_pos ELSE @]
    /\ UNCHANGED <<statement_type, lines, filter_str, disk, categories, table, last_idx,
                   category, text, pc, out>>

\* The inner loop takes an "unknown" row, prints it and asks for its category
ScanShow ==
    /\ pc = "scan"
    /\ last_idx + row_pos < Len(table)
    /\ table[last_idx + row_pos + 1].Kategorie = sUnknown
    /\ i' = row_pos
    /\ row_pos' = row_pos + 1
    /\ pc' = "prompt_category"
    /\ hist' = [hist EXCEPT !.first = IF @ = Unbound THEN last_idx + row_pos ELSE @,
                            !.shown = @ \cup {table[last_idx + row_pos + 1].ID},
                            !.shown_pos = last_idx + row_pos]
    /\ UNCHANGED <<statement_type, lines, filter_str, disk, categories, table, last_idx,
                   category, text, out>>

\* The inner loop has no row left
ScanEnd ==
    /\ pc = "scan"
    /\ last_idx + row_pos >= Len(table)
    /\ pc' = "check"
    /\ hist' = [hist EXCEPT !.broke = FALSE]
    /\ UNCHANGED <<statement_type, lines, filter_str, disk, categories, table, last_idx,
                   i, row_pos, category, text, out>>

\* keys = ["unknown"] + sorted([k for k in categories.keys()])
PromptKeys == <<sUnknown>> \o Sort(Keys(categories))

\* category = input("> ") or 0, and keys[int(category)] for digits
ChosenCategory(typed) ==
    LET entered == IF typed = <<>> THEN <<"0">> ELSE typed
    IN  IF IsDigitStr(entered)
        THEN IF DigitsVal(entered) < Len(PromptKeys)
             THEN Ok(PromptKeys[DigitsVal(entered) + 1])
             ELSE Raised
        ELSE Ok(entered)

\* The operator answers the category prompt
EnterCategory ==
    /\ pc = "prompt_category"
    /\ \E typed \in CategoryInputs :
          LET chosen == ChosenCategory(typed)
          IN  IF ~chosen.ok THEN pc' = "error" /\ UNCHANGED category
              ELSE IF chosen.v = sUnknown THEN pc' = "scan" /\ UNCHANGED category
              ELSE pc' = "prompt_pattern" /\ category' = chosen.v
    /\ UNCHANGED <<statement_type, lines, filter_str, disk, categories, table, last_idx,
                   i, row_pos, text, out, hist>>

\* categories[category] += [text], the category made when new
WithPattern(cats, cat, pattern) ==
    LET known == IF HasKey(cats, cat) THEN cats ELSE Put(cats, cat, <<>>)
    IN  Put(known, cat, Append(Get(known, cat), pattern))

\* The operator answers the pattern prompt: text = input("> ") or row["Buchungstext"]
EnterPattern ==
    /\ pc = "prompt_pattern"
    /\ Len(hist.accepted) < MaxAccepts
    /\ \E typed \in PatternInputs :
          LET entered == IF typed = <<>> THEN Row.Buchungstext ELSE typed
          IN  /\ text' = entered
              /\ categories' = WithPattern(categories, category, entered)
              /\ hist' = [hist EXCEPT !.accepted =
                             Append(@, [category |-> category, text |-> entered])]
    /\ pc' = "store_open"
    /\ UNCHANGED <<statement_type, lines, filter_str, disk, table, last_idx, i, row_pos,
                   category, out>>

\* store_categories: open(path, "w") empties the file
StoreOpen ==
    /\ pc = "store_open"
    /\ disk' = <<>>
    /\ pc' = "store_write"
    /\ hist' = [hist EXCEPT !.before = disk, !.after = SortedDocument(categories)]
    /\ UNCHANGED <<statement_type, lines, filter_str, categories, table, last_idx, i,
                   row_pos, category, text, out>>

\* store_categories: yaml.dump writes the next category and its patterns
StoreWrite ==
    /\ pc = "store_write"
    /\ Len(disk) < Len(SortedDocument(categories))
    /\ disk' = Append(disk, SortedDocument(categories)[Len(disk) + 1])
    /\ UNCHANGED <<statement_type, lines, filter_str, categories, table, last_idx, i,
                   row_pos, category, text, pc, out, hist>>

\* A variant of the offset, for comparison: the row after the one classified
NextOffsetAfter(offset, index) == offset + index + 1

\* last_idx += i
NextOffset(offset, index) == offset + index

\* store_categories returns; if text != row["Buchungstext"]: last_idx += i; break
StoreClose ==
    /\ pc = "store_write"
    /\ Len(disk) = Len(SortedDocument(categories))
    /\ IF text # Row.Buchungstext
       THEN /\ last_idx' = NextOffset(last_idx, i)
            /\ pc' = "check"
            /\ hist' = [hist EXCEPT !.broke = TRUE, !.accept_pos = last_idx + i,
                                    !.prev_offset = last_idx]
       ELSE /\ pc' = "scan"
            /\ UNCHANGED <<last_idx, hist>>
    /\ UNCHANGED <<statement_type, lines, filter_str, disk, categories, table, i, row_pos,
                   category, text, out>>

\* if i + last_idx + 1 >= len(table)
EndReached(index, offset, length) == index + offset + 1 >= length

\* The test after the inner loop; i is unbound when no outer iteration found a row
Check ==
    /\ pc = "check"
    /\ pc' = IF i = Unbound THEN "error"
             ELSE IF EndReached(i, last_idx, Len(table)) THEN "done"
             ELSE "load"
    /\ UNCHANGED <<statement_type, lines, filter_str, disk, categories, table, last_idx,
                   i, row_pos, category, text, out, hist>>

\* ctrl-c: the KeyboardInterrupt ends the process wherever it stands; a file being
\* written is closed with what has been written
Interrupt ==
    /\ pc \in {"load", "scan", "prompt_category", "prompt_pattern", "store_open",
               "store_write", "check"}
    /\ pc' = "interrupted"
    /\ UNCHANGED <<statement_type, lines, filter_str, disk, categories, table, last_idx,
                   i, row_pos, category, text, out, hist>>

Next ==
    \/ Load
    \/ ScanSkip
    \/ ScanShow
    \/ ScanEnd
    \/ EnterCategory
    \/ EnterPattern
    \/ StoreOpen
    \/ StoreWrite
    \/ StoreClose
    \/ Check
    \/ Interrupt

Spec == Init /\ [][Next]_vars

---------------------------------------------------------------------------
(* hist records what has happened: the IDs of the rows shown to the operator
   (shown) and the position of the last one (shown_pos), the classifications
   accepted (accepted), the file before and after the store at hand (before,
   after) and as the last reload found it (reloaded), whether the inner loop
   was left by the break (broke), the position of the row classified then
   (accept_pos) and the offset before it (prev_offset), whether the iteration
   at hand follows a break (restarted) and the position classified before it
   (resume), and the position of the first row the iteration has scanned
   (first).  Positions count from 0 as the program's do. *)

\* C1: when the workflow stops right after a pattern that differs from the full
\* description was accepted, the row classified was the last of the table: with
\* rows left, the outer loop is restarted instead
C1_RestartedWhenRowsRemain ==
    (pc = "done" /\ hist.broke) => hist.accept_pos + 1 >= Len(table)

\* The rows of the table at or after the offset the operator has never been shown,
\* "unknown" in the table and "unknown" under the definitions on disk
NeverShown ==
    {k \in (last_idx + 1)..Len(table) :
        /\ table[k].Kategorie = sUnknown
        /\ add_category(<<table[k]>>, disk)[1].Kategorie = sUnknown
        /\ table[k].ID \notin hist.shown}

\* C2: when completion is reported, no row of the table at or after the remembered
\* offset is "unknown" without having been shown to the operator
C2_DoneAfterFullScan == pc = "done" => NeverShown = {}

\* C3: when the workflow has been interrupted, the definitions file holds the whole
\* definitions of before the last store or the whole definitions of after it
C3_NeverPartiallyWritten ==
    pc = "interrupted" => (disk = hist.before \/ disk = hist.after)

\* The patterns a definitions mapping holds under a category
PatternsOf(cats, cat) ==
    IF HasKey(cats, cat)
    THEN {Get(cats, cat)[k] : k \in 1..Len(Get(cats, cat))}
    ELSE {}

\* The accepted classifications the file does not hold
Unsaved ==
    {k \in 1..Len(hist.accepted) :
        hist.accepted[k].text \notin PatternsOf(disk, hist.accepted[k].category)}

\* What the last reload found in the file is still there
ReloadedKept ==
    \A k \in 1..Len(hist.reloaded) :
        /\ HasKey(disk, hist.reloaded[k].key)
        /\ PatternsOf(hist.reloaded, hist.reloaded[k].key)
              \subseteq PatternsOf(disk, hist.reloaded[k].key)

\* At each prompt the file holds every classification accepted so far and all that
\* the last reload found
SavedAtEveryPrompt ==
    pc \in {"prompt_category", "prompt_pattern"} => (Unsaved = {} /\ ReloadedKept)

\* C4: at each prompt every accepted classification is in the file, together with
\* what the last reload found there, and at no point is more than one accepted
\* classification missing from the file
C4_AtMostOneUnsaved == SavedAtEveryPrompt /\ Cardinality(Unsaved) <= 1

\* C10: when the inner loop is left after the row at position p was classified, the
\* offset becomes p, never less than it was; the iteration that follows begins its
\* scan at position p, the position classified, and not behind it
C10_RestartAtClassifiedPosition ==
    /\ hist.broke => (last_idx = hist.accept_pos /\ hist.prev_offset <= last_idx)
    /\ (hist.restarted /\ hist.first # Unbound) => hist.first = hist.resume

\* C10: an iteration after a break at position 1 has shown the row at position 1 again
C10_Witness ==
    /\ hist.restarted
    /\ hist.resume = 1
    /\ hist.first = 1
    /\ pc = "prompt_category"
    /\ hist.shown_pos = 1

\* C10 as worded: the offset becomes p + 1, never less than it was, and the iteration
\* that follows begins behind the position classified
C10_Original ==
    /\ hist.broke => (last_idx = hist.accept_pos + 1 /\ hist.prev_offset <= last_idx)
    /\ (hist.restarted /\ hist.first # Unbound) => hist.first = hist.resume + 1

===========================================================================
